---- MODULE Spec2Model ----
(***************************************************************************)
(* Model of the resume allocation engine of ai-resume-builder:             *)
(* DynamicResumeBuilder.buildOptimizedResume and its helpers, and the      *)
(* older BulletPointOptimizer.optimizeBulletsForSinglePage                 *)
(* (src/src/lib/bulletPointOptimizer.ts).                                  *)
(*                                                                         *)
(* Free text (skill names, technology lists) is a sequence of one-character*)
(* strings, so that toLowerCase, includes and split are computed.          *)
(* Identifiers (bullet ids, experienceId) are TLA+ strings; a native       *)
(* bullet's id is built as the code builds it: `${job.id}-${index}`.       *)
(* `request` and `call` are one invocation and its activation record;      *)
(* `server` is the module state of an API route (its rateLimitStore and    *)
(* the clock), which the two optimizers never read or write; under         *)
(* SpecCalls it records the calls a route has made so far.                 *)
(* An object some of whose properties may be missing at run time           *)
(* (rankedContent, its analysis, its rankedSkills) carries a field `absent`*)
(* naming the missing properties; reading a property of a missing object,  *)
(* or iterating a missing array, throws.                                   *)
(***************************************************************************)
EXTENDS Integers, Sequences, FiniteSets, TLC

VARIABLES request, call, server

vars == <<request, call, server>>

\* no route module is involved
NoServer == [isNone |-> TRUE]

(***************************************************************************)
(* Page constants of DynamicResumeBuilder.                                 *)
(***************************************************************************)
TOTAL_PAGE_LINES == 62
STATIC_CONTENT_LINES == 12
PROJECT_HEADER_LINES == 2
JOB_HEADER_LINES == 2
SKILLS_SECTION_LINES == 8
SECTION_HEADER_LINES == 1
MAX_BULLETS_PER_JOB == 6

DefaultMaxJobs == 2
DefaultMinBulletsPerJob == 3
DefaultNativeScore == 50
\* a pool default above the native default
DefaultPoolScore_AboveNative == DefaultNativeScore + 10
DefaultPoolScore == 30

(***************************************************************************)
(* JavaScript values that are not numbers, strings or arrays.              *)
(***************************************************************************)
\* an omitted optional number (request.maxJobs, selectedProjectId)
Undefined == -1
\* selectBestProject's `null`
Null == [isNull |-> TRUE]

Min2(a, b) == IF a <= b THEN a ELSE b
Max2(a, b) == IF a >= b THEN a ELSE b

(***************************************************************************)
(* Text helpers.                                                           *)
(***************************************************************************)
LowerOf(c) ==
  CASE c = "J" -> "j"
    [] c = "S" -> "s"
    [] c = "P" -> "p"
    [] OTHER -> c

ToLowerCase(s) == [k \in 1..Len(s) |-> LowerOf(s[k])]

\* String.prototype.includes: t occurs in s as a contiguous substring
Includes(s, t) ==
  \E k \in 0..(Len(s) - Len(t)) : SubSeq(s, k + 1, k + Len(t)) = t

\* a character matched by the class [,\s]
IsSeparator(c) == c \in {",", " "}

RECURSIVE SkipSeparators(_)
SkipSeparators(s) ==
  IF s # <<>> /\ IsSeparator(s[1]) THEN SkipSeparators(Tail(s)) ELSE s

\* technologies.split(/[,\s]+/): the pieces between maximal separator runs;
\* a leading or trailing run yields an empty piece, "" yields [""]
RECURSIVE SplitFrom(_, _)
SplitFrom(piece, s) ==
  IF s = <<>> THEN <<piece>>
  ELSE IF IsSeparator(s[1]) THEN <<piece>> \o SplitFrom(<<>>, SkipSeparators(s))
  ELSE SplitFrom(Append(piece, s[1]), Tail(s))

SplitTechnologies(s) == SplitFrom(<<>>, s)

(***************************************************************************)
(* Array.prototype.sort with a comparator (b.key - a.key): a stable sort   *)
(* by descending key.  Insert keeps an element behind every element whose  *)
(* key is greater or equal, so equal keys keep their input order.          *)
(***************************************************************************)
\* keys: the key of every element; order: indices already placed
RECURSIVE InsertDesc(_, _, _)
InsertDesc(order, e, keys) ==
  IF order = <<>> THEN <<e>>
  ELSE IF keys[order[1]] >= keys[e]
       THEN <<order[1]>> \o InsertDesc(Tail(order), e, keys)
       ELSE <<e>> \o order

RECURSIVE SortOrderFrom(_, _, _)
SortOrderFrom(order, next, keys) ==
  IF next > Len(keys) THEN order
  ELSE SortOrderFrom(InsertDesc(order, next, keys), next + 1, keys)

\* the input positions in output order
SortOrderDesc(keys) == SortOrderFrom(<<>>, 1, keys)

\* the elements of s in the order given by a sequence of positions
ApplyOrder(s, order) == [k \in 1..Len(s) |-> s[order[k]]]

\* sort((a, b) => b.relevanceScore - a.relevanceScore)
SortByRelevanceScore(bullets) ==
  ApplyOrder(bullets,
    SortOrderDesc([k \in 1..Len(bullets) |-> bullets[k].relevanceScore]))

\* sort((a, b) => b.score - a.score)
SortByScore(items) ==
  ApplyOrder(items, SortOrderDesc([k \in 1..Len(items) |-> items[k].score]))

\* Array.prototype.slice(0, n) for n >= 0
Slice0(s, n) == SubSeq(s, 1, Min2(n, Len(s)))

\* Array.prototype.includes
ArrayIncludes(s, e) == \E k \in 1..Len(s) : s[k] = e

RECURSIVE SumLen(_)
SumLen(entries) ==
  IF entries = <<>> THEN 0
  ELSE Len(entries[1].bullets) + SumLen(Tail(entries))

(***************************************************************************)
(* DynamicResumeBuilder helpers.                                           *)
(***************************************************************************)
\* `value || fallback` on an optional number: undefined and 0 are falsy
OrDefault(value, fallback) ==
  IF value = Undefined \/ value = 0 THEN fallback ELSE value

\* job.id.toString()
IdToString(id) == ToString(id)

\* `${job.id}-${index}` with the 0-based index of forEach
NativeBulletId(jobId, index) == IdToString(jobId) \o "-" \o ToString(index)

\* rankedBullets.find(rb => rb.bulletId === id): the first match, or Null
FindRanking(rankedBullets, id) ==
  LET hits == {k \in 1..Len(rankedBullets) : rankedBullets[k].bulletId = id}
  IN  IF hits = {} THEN Null
      ELSE rankedBullets[CHOOSE k \in hits : \A m \in hits : k <= m]

\* ranking?.relevanceScore || fallback
RelevanceOr(ranking, fallback) ==
  IF ranking = Null THEN fallback
  ELSE OrDefault(ranking.relevanceScore, fallback)

\* the pool taken whole, without the filter on experienceId
PoolBulletsOfJob_Unfiltered(job, bulletPool) == bulletPool

\* bulletPool.filter(bp => bp.experienceId === job.id.toString())
PoolBulletsOfJob(job, bulletPool) ==
  SelectSeq(bulletPool, LAMBDA bp : bp.experienceId = IdToString(job.id))

\* allBullets before the sort: native bullets, then the job's pool bullets
CandidateBullets(job, rankedBullets, bulletPool) ==
  LET native ==
        [k \in 1..Len(job.bullets) |->
          [bulletId |-> NativeBulletId(job.id, k - 1),
           content |-> job.bullets[k],
           relevanceScore |->
             RelevanceOr(FindRanking(rankedBullets, NativeBulletId(job.id, k - 1)),
                         DefaultNativeScore)]]
      tagged == PoolBulletsOfJob(job, bulletPool)
      pool ==
        [k \in 1..Len(tagged) |->
          [bulletId |-> tagged[k].id,
           content |-> tagged[k].content,
           relevanceScore |->
             RelevanceOr(FindRanking(rankedBullets, tagged[k].id),
                         DefaultPoolScore)]]
  IN  native \o pool

GetRankedBulletsForJob(job, rankedBullets, bulletPool) ==
  SortByRelevanceScore(CandidateBullets(job, rankedBullets, bulletPool))

\* rankedBullets.find(...) of lines 326 and 338 is reached with rankedBullets
\* undefined: the job has a bullet, or the pool has a bullet of the job
GetRankedBulletsForJobThrows(job, rankedContent, bulletPool) ==
  /\ "rankedBullets" \in rankedContent.absent
  /\ \/ Len(job.bullets) > 0
     \/ Len(PoolBulletsOfJob(job, bulletPool)) > 0

\* skill.includes(reqSkill) || reqSkill.includes(skill), both lower-cased
SkillMatches(skill, reqSkill) ==
  \/ Includes(ToLowerCase(skill), ToLowerCase(reqSkill))
  \/ Includes(ToLowerCase(reqSkill), ToLowerCase(skill))

\* number of technology pieces matching a required or preferred skill
ProjectScore(project, rankedContent) ==
  LET techSkills == SplitTechnologies(project.technologies)
      wanted == rankedContent.analysis.requiredSkills
                  \o rankedContent.analysis.preferredSkills
  IN  Cardinality({k \in 1..Len(techSkills) :
        \E w \in 1..Len(wanted) : SkillMatches(techSkills[k], wanted[w])})

\* the spread of line 299 is evaluated, for a technology piece of some
\* project, with requiredSkills or preferredSkills undefined
SelectBestProjectThrows(projects, rankedContent) ==
  /\ rankedContent.analysis.absent # {}
  /\ \E k \in 1..Len(projects) :
       Len(SplitTechnologies(projects[k].technologies)) > 0

\* a sort that puts the later of two equal scores first
SortProjectScores_LaterFirst(projectScores) ==
  LET n == Len(projectScores)
      reversed == [k \in 1..n |-> projectScores[n + 1 - k]]
  IN  SortByScore(reversed)

\* projectScores.sort((a, b) => b.score - a.score)
SortProjectScores(projectScores) == SortByScore(projectScores)

\* a selection that gives up when no project matches any skill
SelectBestProject_OnlyIfMatching(projects, rankedContent) ==
  LET matching == SelectSeq(projects,
                    LAMBDA pr : ProjectScore(pr, rankedContent) > 0)
  IN  IF Len(matching) = 0 THEN Null ELSE matching[1]

SelectBestProject(projects, rankedContent) ==
  IF Len(projects) = 0 THEN Null
  ELSE LET projectScores ==
             [k \in 1..Len(projects) |->
               [project |-> projects[k],
                score |-> ProjectScore(projects[k], rankedContent)]]
       IN  SortProjectScores(projectScores)[1].project

\* a lookup that tells "js" from "JS"
SkillRank_CaseSensitive(skill, rankedSkills) ==
  LET hits == {k \in 1..Len(rankedSkills) : rankedSkills[k].skill = skill}
  IN  IF hits = {} THEN 0
      ELSE rankedSkills[CHOOSE k \in hits : \A m \in hits : k >= m].relevanceScore

\* new Map(rankedSkills.map(...)).get(skill.toLowerCase()) || 0:
\* the last entry with that lower-cased name wins
SkillRank(skill, rankedSkills) ==
  LET hits == {k \in 1..Len(rankedSkills) :
                 ToLowerCase(rankedSkills[k].skill) = ToLowerCase(skill)}
  IN  IF hits = {} THEN 0
      ELSE rankedSkills[CHOOSE k \in hits : \A m \in hits : k >= m].relevanceScore

\* a reordering that keeps only the skills the ranking scores above 0
ReorderSkillsByRanking_RankedOnly(originalSkills, rankedSkills) ==
  LET ranked == SelectSeq(originalSkills,
                          LAMBDA skill : SkillRank(skill, rankedSkills) > 0)
      scored == [k \in 1..Len(ranked) |->
                  [skill |-> ranked[k],
                   score |-> SkillRank(ranked[k], rankedSkills)]]
      sorted == SortByScore(scored)
  IN  [k \in 1..Len(sorted) |-> sorted[k].skill]

ReorderSkillsByRanking(originalSkills, rankedSkills) ==
  LET scored == [k \in 1..Len(originalSkills) |->
                  [skill |-> originalSkills[k],
                   score |-> SkillRank(originalSkills[k], rankedSkills)]]
      sorted == SortByScore(scored)
  IN  [k \in 1..Len(sorted) |-> sorted[k].skill]

\* rankedSkills.<category> || []
RankedCategory(rankedSkills, category) ==
  IF category \in rankedSkills.absent THEN <<>> ELSE rankedSkills[category]

BuildRankedSkills(originalSkills, rankedSkills) ==
  [programmingLanguages |->
     ReorderSkillsByRanking(originalSkills.programmingLanguages,
                            RankedCategory(rankedSkills, "programmingLanguages")),
   frameworksAndLibraries |->
     ReorderSkillsByRanking(originalSkills.frameworksAndLibraries,
                            RankedCategory(rankedSkills, "frameworks")),
   softwareAndTools |->
     ReorderSkillsByRanking(originalSkills.softwareAndTools,
                            RankedCategory(rankedSkills, "tools")),
   cloudAndDevOps |->
     ReorderSkillsByRanking(originalSkills.cloudAndDevOps,
                            RankedCategory(rankedSkills, "others")),
   machineLearning |->
     ReorderSkillsByRanking(originalSkills.machineLearning,
                            RankedCategory(rankedSkills, "others")),
   softSkills |-> originalSkills.softSkills]

\* rankedSkills.programmingLanguages of line 360 is read with rankedSkills
\* undefined
BuildRankedSkillsThrows(rankedContent) == "rankedSkills" \in rankedContent.absent

\* estimateRemainingSpace(resumeData)
EstimateRemainingSpace(resumeData) ==
  LET experienceLines ==
        IF Len(resumeData.experience) > 0
        THEN SECTION_HEADER_LINES
               + JOB_HEADER_LINES * Len(resumeData.experience)
               + SumLen(resumeData.experience)
        ELSE 0
      projectLines ==
        IF Len(resumeData.projects) > 0
        THEN SECTION_HEADER_LINES
               + PROJECT_HEADER_LINES * Len(resumeData.projects)
               + SumLen(resumeData.projects)
        ELSE 0
  IN  Max2(0, TOTAL_PAGE_LINES
                - (STATIC_CONTENT_LINES + SKILLS_SECTION_LINES
                     + experienceLines + projectLines))

(***************************************************************************)
(* buildOptimizedResume as a sequence of steps over its activation record  *)
(* `call`: call.pc is the position in the function body, the other fields  *)
(* are its local variables.  Each Do... operator is the code between two   *)
(* positions.                                                              *)
(***************************************************************************)
\* `{} as Skills`
EmptyObject == [isEmpty |-> TRUE]

NewCall ==
  [pc |-> "start", maxJobs |-> 0, minBulletsPerJob |-> 0,
   optimizedResume |-> Null, usedLines |-> 0, usedBullets |-> <<>>,
   selectedProject |-> Null, jobsToInclude |-> <<>>, jobIdx |-> 0,
   remainingLines |-> 0, bulletsAdded |-> 0, jobBullets |-> <<>>,
   maxAdditional |-> 0, i |-> 0, result |-> Null]

\* lines 165-179
DoStart(req, c) ==
  [c EXCEPT
     !.pc = "project",
     !.maxJobs = OrDefault(req.maxJobs, DefaultMaxJobs),
     !.minBulletsPerJob = OrDefault(req.minBulletsPerJob, DefaultMinBulletsPerJob),
     !.optimizedResume =
        [personalInfo |-> req.originalResume.personalInfo,
         education |-> req.originalResume.education,
         experience |-> <<>>,
         projects |-> <<>>,
         skills |-> EmptyObject],
     !.usedLines = STATIC_CONTENT_LINES + SKILLS_SECTION_LINES,
     !.usedBullets = <<>>]

\* lines 181-187
DoSelectProject(req, c) ==
  LET selectedProject ==
        SelectBestProject(req.originalResume.projects, req.rankedContent)
  IN  IF SelectBestProjectThrows(req.originalResume.projects, req.rankedContent)
      THEN [c EXCEPT !.pc = "threw"]
      ELSE IF selectedProject # Null
      THEN [c EXCEPT
              !.pc = "jobs",
              !.selectedProject = selectedProject,
              !.optimizedResume.projects = <<selectedProject>>,
              !.usedLines = c.usedLines + PROJECT_HEADER_LINES
                              + SECTION_HEADER_LINES
                              + Len(selectedProject.bullets)]
      ELSE [c EXCEPT !.pc = "jobs", !.selectedProject = Null]

\* lines 190-191
DoBeginJobs(req, c) ==
  [c EXCEPT
     !.pc = "job",
     !.jobsToInclude = Slice0(req.originalResume.experience, c.maxJobs),
     !.usedLines = c.usedLines + SECTION_HEADER_LINES,
     !.jobIdx = 1]

\* jobBullets.slice(0, minBulletsPerJob - 1): one bullet short of the minimum
GuaranteedBullets_OneShort(jobBullets, minBulletsPerJob) ==
  Slice0(jobBullets, minBulletsPerJob - 1)

\* the guaranteed set of line 198
GuaranteedBullets(jobBullets, minBulletsPerJob) ==
  Slice0(jobBullets, minBulletsPerJob)
\* the lines charged for one included job (line 207)
JobCharge(minBulletsPerJob, minBullets) == JOB_HEADER_LINES + minBulletsPerJob

\* one iteration of the loop of lines 193-208
DoIncludeJob(req, c) ==
  LET job == c.jobsToInclude[c.jobIdx]
      jobBullets == GetRankedBulletsForJob(job, req.rankedContent.rankedBullets,
                                           req.bulletPool)
      minBullets == GuaranteedBullets(jobBullets, c.minBulletsPerJob)
      optimizedJob ==
        [job EXCEPT
           !.bullets = [k \in 1..Len(minBullets) |-> minBullets[k].content]]
  IN  IF GetRankedBulletsForJobThrows(job, req.rankedContent, req.bulletPool)
      THEN [c EXCEPT !.pc = "threw"]
      ELSE
      [c EXCEPT
         !.jobBullets = jobBullets,
         !.optimizedResume.experience = Append(@, optimizedJob),
         !.usedBullets =
            @ \o [k \in 1..Len(minBullets) |-> minBullets[k].bulletId],
         !.usedLines = @ + JobCharge(c.minBulletsPerJob, minBullets),
         !.jobIdx = @ + 1]

\* lines 211-214, and the skip of the whole block when no line remains
DoBeginFill(req, c) ==
  LET remainingLines == TOTAL_PAGE_LINES - c.usedLines
  IN  IF remainingLines > 0
      THEN [c EXCEPT !.pc = "first", !.remainingLines = remainingLines,
                     !.bulletsAdded = 0]
      ELSE [c EXCEPT !.pc = "skills", !.remainingLines = remainingLines]

\* lines 217-225
DoEnterFirstJob(req, c) ==
  IF /\ Len(c.optimizedResume.experience) >= 1
     /\ Len(c.optimizedResume.experience[1].bullets) < MAX_BULLETS_PER_JOB
  THEN IF GetRankedBulletsForJobThrows(c.jobsToInclude[1], req.rankedContent,
                                       req.bulletPool)
       THEN [c EXCEPT !.pc = "threw"]
       ELSE
       [c EXCEPT
          !.pc = "firstLoop",
          !.jobBullets = GetRankedBulletsForJob(c.jobsToInclude[1],
                            req.rankedContent.rankedBullets, req.bulletPool),
          !.maxAdditional = MAX_BULLETS_PER_JOB
                              - Len(c.optimizedResume.experience[1].bullets),
          !.i = c.minBulletsPerJob]
  ELSE [c EXCEPT !.pc = "second"]

\* line 226 without the remainingLines limit
FirstLoopCondition_NoBudget(c) ==
  /\ c.i < Len(c.jobBullets)
  /\ c.bulletsAdded < c.maxAdditional

\* a first loop that gives up after one bullet
FirstLoopCondition_OneBullet(c) ==
  /\ c.i < Len(c.jobBullets)
  /\ c.bulletsAdded < Min2(c.remainingLines, 1)

\* the loop condition of line 226
FirstLoopCondition(c) ==
  /\ c.i < Len(c.jobBullets)
  /\ c.bulletsAdded < Min2(c.remainingLines, c.maxAdditional)

\* a loop body that places the bullet without recording its id
FillBody_Unrecorded(c, pos) ==
  LET bullet == c.jobBullets[c.i + 1]
  IN  IF ~ ArrayIncludes(c.usedBullets, bullet.bulletId)
      THEN [c EXCEPT
              !.optimizedResume.experience[pos].bullets = Append(@, bullet.content),
              !.bulletsAdded = @ + 1,
              !.i = @ + 1]
      ELSE [c EXCEPT !.i = @ + 1]

\* the loop body shared by lines 227-232 and 249-254, for output job `pos`
FillBody(c, pos) ==
  LET bullet == c.jobBullets[c.i + 1]
  IN  IF ~ ArrayIncludes(c.usedBullets, bullet.bulletId)
      THEN [c EXCEPT
              !.optimizedResume.experience[pos].bullets = Append(@, bullet.content),
              !.usedBullets = Append(@, bullet.bulletId),
              !.bulletsAdded = @ + 1,
              !.i = @ + 1]
      ELSE [c EXCEPT !.i = @ + 1]

\* one evaluation of the for statement of lines 226-233
DoFillFirstJob(req, c) ==
  IF FirstLoopCondition(c) THEN FillBody(c, 1) ELSE [c EXCEPT !.pc = "second"]

\* lines 237-246
DoEnterSecondJob(req, c) ==
  IF /\ Len(c.optimizedResume.experience) >= 2
     /\ c.bulletsAdded < c.remainingLines
     /\ Len(c.optimizedResume.experience[2].bullets) < MAX_BULLETS_PER_JOB
  THEN IF GetRankedBulletsForJobThrows(c.jobsToInclude[2], req.rankedContent,
                                       req.bulletPool)
       THEN [c EXCEPT !.pc = "threw"]
       ELSE
       [c EXCEPT
          !.pc = "secondLoop",
          !.jobBullets = GetRankedBulletsForJob(c.jobsToInclude[2],
                            req.rankedContent.rankedBullets, req.bulletPool),
          !.maxAdditional = MAX_BULLETS_PER_JOB
                              - Len(c.optimizedResume.experience[2].bullets),
          !.i = c.minBulletsPerJob]
  ELSE [c EXCEPT !.pc = "endFill"]

\* line 248 without the remainingLines limit
SecondLoopCondition_NoBudget(c) ==
  /\ c.i < Len(c.jobBullets)
  /\ Len(c.optimizedResume.experience[2].bullets) < MAX_BULLETS_PER_JOB

\* the loop condition of line 248
SecondLoopCondition(c) ==
  /\ c.i < Len(c.jobBullets)
  /\ c.bulletsAdded < c.remainingLines
  /\ Len(c.optimizedResume.experience[2].bullets) < MAX_BULLETS_PER_JOB

\* one evaluation of the for statement of lines 248-255
DoFillSecondJob(req, c) ==
  IF SecondLoopCondition(c) THEN FillBody(c, 2) ELSE [c EXCEPT !.pc = "endFill"]

\* line 258
DoEndFill(req, c) ==
  [c EXCEPT !.pc = "skills", !.usedLines = @ + c.bulletsAdded]

\* a page with fewer than three lines left is reported full
CanFitMoreContent_AnyLineLeft(usedLines) == (TOTAL_PAGE_LINES - usedLines) > 0

\* line 269
CanFitMoreContent(usedLines) == (TOTAL_PAGE_LINES - usedLines) > 2

\* lines 261-284
DoFinish(req, c) ==
  LET optimizedResume ==
        [c.optimizedResume EXCEPT
           !.skills = BuildRankedSkills(req.originalResume.skills,
                                        req.rankedContent.rankedSkills)]
      pageSpaceUsed ==
        [totalAvailableLines |-> TOTAL_PAGE_LINES,
         usedLines |-> c.usedLines,
         remainingLines |-> TOTAL_PAGE_LINES - c.usedLines,
         canFitMoreContent |-> CanFitMoreContent(c.usedLines)]
  IN  IF BuildRankedSkillsThrows(req.rankedContent)
      THEN [c EXCEPT !.pc = "threw"]
      ELSE
      [c EXCEPT
         !.pc = "done",
         !.optimizedResume = optimizedResume,
         !.result =
            [resumeData |-> optimizedResume,
             usedBullets |-> c.usedBullets,
             selectedProjectId |->
               IF c.selectedProject = Null THEN Undefined
               ELSE c.selectedProject.id,
             pageSpaceUsed |-> pageSpaceUsed,
             optimizationDetails |->
               [totalBulletsAdded |-> Len(c.usedBullets),
                skillsReordered |-> TRUE,
                projectSelected |-> c.selectedProject # Null,
                jobsPrioritized |-> TRUE]]]

\* the step the function takes next from position c.pc
StepOf(req, c) ==
  CASE c.pc = "start" -> DoStart(req, c)
    [] c.pc = "project" -> DoSelectProject(req, c)
    [] c.pc = "jobs" -> DoBeginJobs(req, c)
    [] c.pc = "job" -> IF c.jobIdx <= Len(c.jobsToInclude)
                       THEN DoIncludeJob(req, c) ELSE DoBeginFill(req, c)
    [] c.pc = "first" -> DoEnterFirstJob(req, c)
    [] c.pc = "firstLoop" -> DoFillFirstJob(req, c)
    [] c.pc = "second" -> DoEnterSecondJob(req, c)
    [] c.pc = "secondLoop" -> DoFillSecondJob(req, c)
    [] c.pc = "endFill" -> DoEndFill(req, c)
    [] c.pc = "skills" -> DoFinish(req, c)

RECURSIVE RunFrom(_, _)
RunFrom(req, c) ==
  IF c.pc \in {"done", "threw"} THEN c ELSE RunFrom(req, StepOf(req, c))

\* the value returned by buildOptimizedResume(req)
BuildOptimizedResume(req) == RunFrom(req, NewCall).result

(***************************************************************************)
(* Bounds and input sets.                                                  *)
(***************************************************************************)
MaxExperience == 3
MaxProjects == 2
MaxPool == 2
MaxRanked == 2
MaxSkills == 3

\* all sequences over S of length at most n
SeqUpTo(S, n) == UNION {[1..k -> S] : k \in 0..n}

\* an experience entry with id `id` and n bullets
Job(id, n) ==
  [id |-> id, company |-> "company",
   bullets |-> [k \in 1..n |-> "native " \o ToString(id) \o "/" \o ToString(k)]]

\* a project with id `id`, a technologies string and n bullets
Project(id, technologies, n) ==
  [id |-> id, technologies |-> technologies,
   bullets |-> [k \in 1..n |-> "project " \o ToString(id) \o "/" \o ToString(k)]]

PoolBullet(id, experienceId) ==
  [id |-> id, content |-> "pool " \o id, experienceId |-> experienceId]

Ranked(bulletId, relevanceScore) ==
  [bulletId |-> bulletId, relevanceScore |-> relevanceScore]

BaseSkills ==
  [programmingLanguages |-> << <<"j", "s">>, <<"P">> >>,
   frameworksAndLibraries |-> << <<"s">> >>,
   softwareAndTools |-> <<>>,
   cloudAndDevOps |-> << <<"j">>, <<"p">> >>,
   machineLearning |-> << <<"p">> >>,
   softSkills |-> << <<"s">>, <<"j">> >>]

BaseRankedSkills ==
  [programmingLanguages |-> << [skill |-> <<"p">>, relevanceScore |-> 80] >>,
   frameworks |-> <<>>,
   tools |-> <<>>,
   others |-> << [skill |-> <<"P">>, relevanceScore |-> 70] >>,
   absent |-> {}]

BaseAnalysis ==
  [requiredSkills |-> << <<"J", "S">> >>, preferredSkills |-> << <<"p">> >>,
   absent |-> {}]

BasePool ==
  << PoolBullet("p1", "1"), PoolBullet("p2", "1"), PoolBullet("p3", "2"),
     PoolBullet("p9", "9") >>

BaseRankedBullets ==
  << Ranked("1-1", 90), Ranked("p1", 60), Ranked("ghost-1", 99) >>

MakeRequest(experience, projects, analysis, rankedBullets, bulletPool, maxJobs, minBulletsPerJob) ==
  [originalResume |->
     [personalInfo |-> "personalInfo",
      education |-> << [id |-> 1, bullets |-> <<"education 1/1">>] >>,
      experience |-> experience,
      projects |-> projects,
      skills |-> BaseSkills],
   rankedContent |->
     [analysis |-> analysis,
      rankedBullets |-> rankedBullets,
      rankedSkills |-> BaseRankedSkills,
      absent |-> {}],
   bulletPool |-> bulletPool,
   maxJobs |-> maxJobs,
   minBulletsPerJob |-> minBulletsPerJob]

\* numbers of native bullets of an experience entry
NativeCounts == {0, 2, 7}

\* experience lists: the entry at position k has id k
ExperienceOfCounts(counts) == [k \in 1..Len(counts) |-> Job(k, counts[k])]

ExperienceInputs ==
  {ExperienceOfCounts(counts) : counts \in SeqUpTo(NativeCounts, MaxExperience)}

\* supplied maxJobs / minBulletsPerJob (Undefined: the field is omitted)
MaxJobsInputs == {Undefined, 0, 1, 3}
MinBulletsInputs == {Undefined, 0, 1, 7}

\* project bullet counts of the budget slice: small, filling the page to
\* one spare line, and larger than the page
BudgetProjectInputs ==
  {<<>>} \cup {<<Project(1, <<"j", "s">>, n)>> : n \in {2, 27, 40}}

\* technologies strings: "", "js", "JS, p", "s,", "x"
TechnologyInputs ==
  { <<>>, <<"j", "s">>, <<"J", "S", ",", " ", "p">>, <<"s", ",">>, <<"x">> }

ProjectBulletCounts == {0, 2}

ProjectsOf(choices) ==
  [k \in 1..Len(choices) |-> Project(k, choices[k][1], choices[k][2])]

ProjectInputs ==
  {ProjectsOf(choices) :
     choices \in SeqUpTo(TechnologyInputs \X ProjectBulletCounts, MaxProjects)}

AnalysisInputs ==
  { [requiredSkills |-> <<>>, preferredSkills |-> <<>>, absent |-> {}],
    BaseAnalysis,
    [requiredSkills |-> << <<"s">> >>, preferredSkills |-> << <<"x">>, <<"P">> >>,
     absent |-> {}] }

\* pool entries: two of job 1, one whose id collides with job 1's first
\* native bullet, one of job 2, one of no job
PoolEntries ==
  { PoolBullet("p1", "1"), PoolBullet("p2", "1"), PoolBullet("1-0", "1"),
    PoolBullet("p3", "2"), PoolBullet("p9", "9") }

\* ranked ids: a native bullet, a pool bullet, a bullet of no job or pool
RankedIds == {"1-0", "p1", "ghost-1"}
RankedScores == {0, 40, 90}

RankedEntries == {Ranked(id, score) : id \in RankedIds, score \in RankedScores}

\* the pools of the ranking slice
PoolInputs ==
  { <<>>,
    BasePool,
    << PoolBullet("1-0", "1"), PoolBullet("p1", "1") >>,
    << PoolBullet("p9", "9"), PoolBullet("p3", "2"), PoolBullet("p1", "1") >> }

\* the rankings of the pool slice
RankedBulletsInputs ==
  { <<>>,
    BaseRankedBullets,
    << Ranked("1-0", 0), Ranked("p1", 40), Ranked("ghost-1", 90) >> }

(***************************************************************************)
(* Initial states: the request is drawn from four slices of the input      *)
(* space, each varying some fields around fixed values of the others.      *)
(***************************************************************************)
\* experience sizes, maxJobs, minBulletsPerJob and the project's size
BudgetRequests ==
  {MakeRequest(experience, projects, BaseAnalysis, BaseRankedBullets, BasePool,
               maxJobs, minBulletsPerJob) :
     experience \in ExperienceInputs, projects \in BudgetProjectInputs,
     maxJobs \in MaxJobsInputs, minBulletsPerJob \in MinBulletsInputs}

\* the ranking, over a few pools
RankingRequests ==
  {MakeRequest(<<Job(1, 2), Job(2, 1)>>, <<>>, BaseAnalysis, rankedBullets,
               bulletPool, Undefined, minBulletsPerJob) :
     rankedBullets \in SeqUpTo(RankedEntries, MaxRanked),
     bulletPool \in PoolInputs,
     minBulletsPerJob \in {Undefined, 1}}

\* the bullet pool, over a few rankings
PoolRequests ==
  {MakeRequest(<<Job(1, 2), Job(2, 1)>>, <<>>, BaseAnalysis, rankedBullets,
               bulletPool, Undefined, minBulletsPerJob) :
     rankedBullets \in RankedBulletsInputs,
     bulletPool \in SeqUpTo(PoolEntries, MaxPool),
     minBulletsPerJob \in {Undefined, 1}}

\* the projects and the job's skill lists
ProjectRequests ==
  {MakeRequest(<<Job(1, 2)>>, projects, analysis, BaseRankedBullets, BasePool,
               Undefined, Undefined) :
     projects \in ProjectInputs, analysis \in AnalysisInputs}

\* skill names, two of them equal up to case
SkillNames == { <<"j", "s">>, <<"J", "S">>, <<"p">> }

RankedSkill(skill, relevanceScore) ==
  [skill |-> skill, relevanceScore |-> relevanceScore]

\* rankings of one category: none, one name in either case, a name ranked
\* twice, a score of 0, a tie, a name the resume does not have
SkillRankingInputs ==
  { <<>>,
    << RankedSkill(<<"j", "s">>, 80) >>,
    << RankedSkill(<<"J", "S">>, 80) >>,
    << RankedSkill(<<"p">>, 50), RankedSkill(<<"j", "s">>, 90),
       RankedSkill(<<"J", "S">>, 20) >>,
    << RankedSkill(<<"j", "s">>, 0), RankedSkill(<<"p">>, 0) >>,
    << RankedSkill(<<"P">>, 80), RankedSkill(<<"j", "s">>, 80) >>,
    << RankedSkill(<<"x">>, 70) >>,
    << RankedSkill(<<"p">>, 10), RankedSkill(<<"j", "s">>, 40) >> }

RankedCategoryNames == {"programmingLanguages", "frameworks", "tools", "others"}

\* the same list in every technical category
SkillsOf(list) ==
  [programmingLanguages |-> list,
   frameworksAndLibraries |-> list,
   softwareAndTools |-> list,
   cloudAndDevOps |-> list,
   machineLearning |-> list,
   softSkills |-> << <<"p">>, <<"j", "s">>, <<"J", "S">> >>]

\* a ranking for one category, the other categories unranked
RankedSkillsIn(category, ranking) ==
  [name \in RankedCategoryNames |-> IF name = category THEN ranking ELSE <<>>]
    @@ [absent |-> {}]

\* the same ranking for every category
RankedSkillsEverywhere(ranking) ==
  [name \in RankedCategoryNames |-> ranking] @@ [absent |-> {}]

WithSkills(req, skills, rankedSkills) ==
  [req EXCEPT !.originalResume.skills = skills,
              !.rankedContent.rankedSkills = rankedSkills]

BareRequest ==
  MakeRequest(<<>>, <<>>, BaseAnalysis, <<>>, <<>>, Undefined, Undefined)

\* the skill lists and their ranking
SkillRequests ==
  {WithSkills(BareRequest, SkillsOf(list), RankedSkillsIn(category, ranking)) :
     list \in SeqUpTo(SkillNames, MaxSkills),
     category \in RankedCategoryNames,
     ranking \in SkillRankingInputs}
  \cup
  {WithSkills(BareRequest, BaseSkills, RankedSkillsEverywhere(ranking)) :
     ranking \in SkillRankingInputs}

\* properties of rankedContent, of its analysis and of its rankedSkills that
\* a caller may leave out
RankedContentProperties == {"rankedBullets", "rankedSkills"}
AnalysisProperties == {"requiredSkills", "preferredSkills"}

Without(req, contentAbsent, analysisAbsent, categoriesAbsent) ==
  [req EXCEPT !.rankedContent.absent = contentAbsent,
              !.rankedContent.analysis.absent = analysisAbsent,
              !.rankedContent.rankedSkills.absent = categoriesAbsent]

\* requests whose ranking data is incomplete, and the complete ones they
\* are derived from
IncompleteRequests ==
  {Without(MakeRequest(experience, projects, BaseAnalysis, BaseRankedBullets,
                       bulletPool, Undefined, Undefined),
           contentAbsent, analysisAbsent, categoriesAbsent) :
     experience \in {<<>>, <<Job(1, 0)>>, <<Job(1, 7), Job(2, 2)>>},
     projects \in {<<>>, <<Project(1, <<"j", "s">>, 2)>>},
     bulletPool \in {<<>>, BasePool},
     contentAbsent \in SUBSET RankedContentProperties,
     analysisAbsent \in SUBSET AnalysisProperties,
     categoriesAbsent \in SUBSET RankedCategoryNames}

Requests ==
  BudgetRequests \cup RankingRequests \cup PoolRequests \cup ProjectRequests
    \cup SkillRequests

Init ==
  /\ request \in Requests
  /\ call = NewCall
  /\ server = NoServer

(***************************************************************************)
(* Actions: one per position of buildOptimizedResume.                      *)
(***************************************************************************)
Start ==
  /\ call.pc = "start"
  /\ call' = DoStart(request, call)
  /\ UNCHANGED <<request, server>>

SelectProject ==
  /\ call.pc = "project"
  /\ call' = DoSelectProject(request, call)
  /\ UNCHANGED <<request, server>>

BeginJobs ==
  /\ call.pc = "jobs"
  /\ call' = DoBeginJobs(request, call)
  /\ UNCHANGED <<request, server>>

IncludeJob ==
  /\ call.pc = "job"
  /\ call.jobIdx <= Len(call.jobsToInclude)
  /\ call' = DoIncludeJob(request, call)
  /\ UNCHANGED <<request, server>>

BeginFill ==
  /\ call.pc = "job"
  /\ call.jobIdx > Len(call.jobsToInclude)
  /\ call' = DoBeginFill(request, call)
  /\ UNCHANGED <<request, server>>

EnterFirstJob ==
  /\ call.pc = "first"
  /\ call' = DoEnterFirstJob(request, call)
  /\ UNCHANGED <<request, server>>

\* The arguments after one turn of a fill loop.  The turn's push (lines 229
\* and 251) acts on optimizedResume.experience[pos].bullets, the array that
\* line 200 built with map, not on the bullets array of the original job.
ArgumentsAfterFillBody(req, c, pos) == req

FillFirstJob ==
  /\ call.pc = "firstLoop"
  /\ call' = DoFillFirstJob(request, call)
  /\ request' = IF FirstLoopCondition(call)
                THEN ArgumentsAfterFillBody(request, call, 1) ELSE request
  /\ UNCHANGED server

EnterSecondJob ==
  /\ call.pc = "second"
  /\ call' = DoEnterSecondJob(request, call)
  /\ UNCHANGED <<request, server>>

FillSecondJob ==
  /\ call.pc = "secondLoop"
  /\ call' = DoFillSecondJob(request, call)
  /\ request' = IF SecondLoopCondition(call)
                THEN ArgumentsAfterFillBody(request, call, 2) ELSE request
  /\ UNCHANGED server

EndFill ==
  /\ call.pc = "endFill"
  /\ call' = DoEndFill(request, call)
  /\ UNCHANGED <<request, server>>

Finish ==
  /\ call.pc = "skills"
  /\ call' = DoFinish(request, call)
  /\ UNCHANGED <<request, server>>

Next ==
  \/ Start
  \/ SelectProject
  \/ BeginJobs
  \/ IncludeJob
  \/ BeginFill
  \/ EnterFirstJob
  \/ FillFirstJob
  \/ EnterSecondJob
  \/ FillSecondJob
  \/ EndFill
  \/ Finish

Spec == Init /\ [][Next]_vars

\* the calls made with incomplete ranking data
InitIncomplete ==
  /\ request \in IncompleteRequests
  /\ call = NewCall
  /\ server = NoServer

SpecIncomplete == InitIncomplete /\ [][Next]_vars

(***************************************************************************)
(* BulletPointOptimizer.optimizeBulletsForSinglePage and its helpers.      *)
(* Under SpecLegacy `request` holds the two arguments (resumeData,         *)
(* bulletPool) and `call` the activation record of one call.               *)
(***************************************************************************)
MAX_TOTAL_BULLETS == 18
MIN_BULLETS_PER_JOB == 4
MAX_PROJECT_BULLETS == 4

\* the words impactScore looks for
Percent == <<"%">>
Improvement == <<"i", "m", "p", "r", "o", "v", "e", "m", "e", "n", "t">>
Reduction == <<"r", "e", "d", "u", "c", "t", "i", "o", "n">>

\* bullet.impact?.includes(word)
ImpactIncludes(bullet, word) ==
  "impact" \in DOMAIN bullet /\ Includes(bullet.impact, word)

\* lines 102-106
ImpactScore(bullet) ==
  IF ImpactIncludes(bullet, Percent) THEN 3
  ELSE IF ImpactIncludes(bullet, Improvement) \/ ImpactIncludes(bullet, Reduction)
       THEN 2
       ELSE 1

\* the pool bullets left in pool order
SortByImpactScore_PoolOrder(bullets) == bullets

\* sort((a, b) => impactScore(b) - impactScore(a))
SortByImpactScore(bullets) ==
  ApplyOrder(bullets,
    SortOrderDesc([k \in 1..Len(bullets) |-> ImpactScore(bullets[k])]))

\* lines 98-108: the pool bullets of the experience, highest impact first
AdditionalBullets(experience, bulletPool) ==
  SortByImpactScore(
    SelectSeq(bulletPool,
              LAMBDA bullet : bullet.experienceId = IdToString(experience.id)))

\* lines 111-114
AllAvailableBullets(experience, bulletPool) ==
  LET additionalBullets == AdditionalBullets(experience, bulletPool)
  IN  experience.bullets
        \o [k \in 1..Len(additionalBullets) |-> additionalBullets[k].content]

\* lines 92-123
SelectBestBullets(experience, bulletPool, targetCount) ==
  [experience EXCEPT
     !.bullets = Slice0(AllAvailableBullets(experience, bulletPool), targetCount)]

\* sort((a, b) => b.priority - a.priority)
SortByPriority(jobs) ==
  ApplyOrder(jobs, SortOrderDesc([k \in 1..Len(jobs) |-> jobs[k].priority]))

\* allocation.find(a => a.experienceId === exp.id)?.bulletCount
\*   || MIN_BULLETS_PER_JOB  (line 31): the first entry with that id; no entry
\* and a bulletCount of 0 both give the minimum
TargetCount(allocation, exp) ==
  LET hits == {k \in 1..Len(allocation) : allocation[k].experienceId = exp.id}
  IN  IF hits = {} THEN MIN_BULLETS_PER_JOB
      ELSE OrDefault(
             allocation[CHOOSE k \in hits : \A m \in hits : k <= m].bulletCount,
             MIN_BULLETS_PER_JOB)

\* an allotment of extras without the cap of 3 per job
MaxAdditional_Uncapped(remainingExtra, job) ==
  Min2(remainingExtra, job.availableBullets - job.bulletCount)

\* lines 76-80: Math.min(remainingExtra, availableBullets - bulletCount, 3),
\* negative for a job with fewer original bullets than the minimum
MaxAdditional(remainingExtra, job) ==
  Min2(Min2(remainingExtra, job.availableBullets - job.bulletCount), 3)

\* a trimming that keeps every bullet of the project
TrimProject_Untrimmed(project) == project

\* lines 36-39
TrimProject(project) ==
  [project EXCEPT !.bullets = Slice0(project.bullets, MAX_PROJECT_BULLETS)]

NewLegacyCall ==
  [pc |-> "allocate", allocation |-> <<>>, remainingExtra |-> 0, jobIdx |-> 0,
   optimizedExperience |-> <<>>, result |-> Null]

\* lines 56-73: the minimum for every job, the jobs in priority order
DoCalculateOptimalAllocation(req, c) ==
  LET experiences == req.resumeData.experience
      totalJobs == Len(experiences)
      minTotalBullets == totalJobs * MIN_BULLETS_PER_JOB
      extraBullets == Max2(0, MAX_TOTAL_BULLETS - minTotalBullets)
      prioritizedJobs ==
        [k \in 1..totalJobs |->
           [experienceId |-> experiences[k].id,
            bulletCount |-> MIN_BULLETS_PER_JOB,
            priority |-> Len(experiences) - (k - 1),
            availableBullets |-> Len(experiences[k].bullets)]]
  IN  [c EXCEPT !.pc = "distribute",
                !.allocation = SortByPriority(prioritizedJobs),
                !.remainingExtra = extraBullets,
                !.jobIdx = 1]

\* one iteration of the forEach of lines 74-84, and the return of line 86
DoDistributeExtraBullets(req, c) ==
  IF c.jobIdx <= Len(c.allocation)
  THEN IF c.remainingExtra > 0
       THEN LET maxAdditional ==
                  MaxAdditional(c.remainingExtra, c.allocation[c.jobIdx])
            IN  [c EXCEPT !.allocation[c.jobIdx].bulletCount = @ + maxAdditional,
                          !.remainingExtra = @ - maxAdditional,
                          !.jobIdx = @ + 1]
       ELSE [c EXCEPT !.jobIdx = @ + 1]
  ELSE [c EXCEPT !.pc = "apply", !.jobIdx = 1]

\* one iteration of the map of lines 30-33
DoApplyAllocation(req, c) ==
  IF c.jobIdx <= Len(req.resumeData.experience)
  THEN LET exp == req.resumeData.experience[c.jobIdx]
           targetCount == TargetCount(c.allocation, exp)
       IN  [c EXCEPT
              !.optimizedExperience =
                 Append(@, SelectBestBullets(exp, req.bulletPool, targetCount)),
              !.jobIdx = @ + 1]
  ELSE [c EXCEPT !.pc = "projects"]

\* lines 36-45
DoTrimProjects(req, c) ==
  LET optimizedProjects ==
        [k \in 1..Len(req.resumeData.projects) |->
           TrimProject(req.resumeData.projects[k])]
  IN  [c EXCEPT
         !.pc = "returned",
         !.result = [req.resumeData EXCEPT
                       !.experience = c.optimizedExperience,
                       !.projects = optimizedProjects]]

\* lines 128-135
EstimatePageFit(resumeData) ==
  SumLen(resumeData.experience) + SumLen(resumeData.projects)
    + (IF resumeData.education = <<>> THEN 0
       ELSE Len(resumeData.education[1].bullets))
    <= 18

(***************************************************************************)
(* Inputs of the legacy optimizer.                                         *)
(***************************************************************************)
MaxLegacyJobs == 5

PoolBulletWithImpact(id, experienceId, impact) ==
  [id |-> id, content |-> "pool " \o id, experienceId |-> experienceId,
   impact |-> impact]

\* four bullets of job 1 with every kind of impact, one of job 2, one of no
\* job
ImpactPool ==
  << PoolBullet("p1", "1"),
     PoolBulletWithImpact("p2", "1", Reduction),
     PoolBulletWithImpact("p3", "1", <<"5">> \o Percent),
     PoolBulletWithImpact("p4", "1", Improvement \o <<"s">>),
     PoolBulletWithImpact("p5", "2", <<"f", "a", "s", "t">>),
     PoolBullet("p9", "9") >>

\* one bullet of job 1 and two of job 2
SmallPool ==
  << PoolBullet("p1", "1"), PoolBulletWithImpact("p2", "2", Percent),
     PoolBullet("p3", "2") >>

LegacyRequest(experience, projects, bulletPool) ==
  [resumeData |->
     [personalInfo |-> "personalInfo",
      education |-> << [id |-> 1, bullets |-> <<"education 1/1">>] >>,
      experience |-> experience,
      projects |-> projects,
      skills |-> BaseSkills],
   bulletPool |-> bulletPool]

\* many jobs: fewer original bullets than the minimum, just above it, more
\* than minimum plus cap
ManyJobsRequests ==
  {LegacyRequest(ExperienceOfCounts(counts),
                 <<Project(1, <<"j", "s">>, 6)>>, bulletPool) :
     counts \in SeqUpTo({0, 3, 5, 8}, MaxLegacyJobs),
     bulletPool \in {<<>>, ImpactPool}}

\* few jobs, over every number of original bullets, pools and project lists
FewJobsRequests ==
  {LegacyRequest(ExperienceOfCounts(counts), projects, bulletPool) :
     counts \in SeqUpTo(0..8, 2),
     projects \in {<<>>, <<Project(1, <<"j", "s">>, 3)>>,
                   <<Project(1, <<"j", "s">>, 6), Project(2, <<>>, 4)>>},
     bulletPool \in {<<>>, ImpactPool, SmallPool}}

LegacyRequests == ManyJobsRequests \cup FewJobsRequests

InitLegacy ==
  /\ request \in LegacyRequests
  /\ call = NewLegacyCall
  /\ server = NoServer

CalculateOptimalAllocation ==
  /\ call.pc = "allocate"
  /\ call' = DoCalculateOptimalAllocation(request, call)
  /\ UNCHANGED <<request, server>>

DistributeExtraBullets ==
  /\ call.pc = "distribute"
  /\ call' = DoDistributeExtraBullets(request, call)
  /\ UNCHANGED <<request, server>>

\* selectBestBullets with the sort of line 100 applied to bulletPool itself
ArgumentsAfterSelectBestBullets_SortsPool(req, experience) ==
  [req EXCEPT !.bulletPool = SortByImpactScore(@)]

\* The arguments after selectBestBullets.  The sort of line 100 acts on the
\* array filter returned (line 99), the spread of lines 111-114 and the slice
\* of line 117 build new arrays, and the result is a new object (lines
\* 119-122).
ArgumentsAfterSelectBestBullets(req, experience) == req

ApplyAllocation ==
  /\ call.pc = "apply"
  /\ call' = DoApplyAllocation(request, call)
  /\ request' = IF call.jobIdx <= Len(request.resumeData.experience)
                THEN ArgumentsAfterSelectBestBullets(
                       request, request.resumeData.experience[call.jobIdx])
                ELSE request
  /\ UNCHANGED server

TrimProjects ==
  /\ call.pc = "projects"
  /\ call' = DoTrimProjects(request, call)
  /\ UNCHANGED <<request, server>>

NextLegacy ==
  \/ CalculateOptimalAllocation
  \/ DistributeExtraBullets
  \/ ApplyAllocation
  \/ TrimProjects

SpecLegacy == InitLegacy /\ [][NextLegacy]_vars

(***************************************************************************)
(* The rate limiter of the API routes (analyze-job, generate-pdf).  Under  *)
(* SpecRateLimit `server` is the state of one route module: its            *)
(* rateLimitStore, the clock Date.now() reads, and `watch`, an observer    *)
(* that counts the requests of one address admitted in the 60,000 ms that  *)
(* start at an admitted request.  `request` is the request being answered  *)
(* and `call` the outcome of the handler.                                  *)
(***************************************************************************)
WINDOW_MS == 60000
ANALYZE_JOB_MAX_REQUESTS == 10
GENERATE_PDF_MAX_REQUESTS == 5

Routes == {"analyze-job", "generate-pdf"}

\* the default of the maxRequests parameter in the route's module
MaxRequestsOf(route) ==
  IF route = "analyze-job" THEN ANALYZE_JOB_MAX_REQUESTS
  ELSE GENERATE_PDF_MAX_REQUESTS

\* headers.get(...) of a header the request does not carry
NoHeader == ""

\* request.headers.get('x-forwarded-for') || request.headers.get('x-real-ip')
\*   || 'anonymous'
ClientAddress(headers) ==
  IF headers.forwardedFor # NoHeader THEN headers.forwardedFor
  ELSE IF headers.realIp # NoHeader THEN headers.realIp
  ELSE "anonymous"

\* rateLimitStore.get(ip) of an address without entry
NoEntry == [isUndefined |-> TRUE]

\* a limiter that lets one request more through: count > maxRequests
RateLimit_OneMore(store, ip, now, maxRequests, windowMs) ==
  LET userLimit == store[ip]
  IN  IF userLimit = NoEntry \/ now > userLimit.resetTime
      THEN [allowed |-> TRUE,
            store |-> [store EXCEPT
                         ![ip] = [count |-> 1, resetTime |-> now + windowMs]]]
      ELSE IF userLimit.count > maxRequests
      THEN [allowed |-> FALSE, store |-> store]
      ELSE [allowed |-> TRUE, store |-> [store EXCEPT ![ip].count = @ + 1]]

\* rateLimit(ip, maxRequests, windowMs): the value returned and the store
\* it leaves
RateLimit(store, ip, now, maxRequests, windowMs) ==
  LET userLimit == store[ip]
  IN  IF userLimit = NoEntry \/ now > userLimit.resetTime
      THEN [allowed |-> TRUE,
            store |-> [store EXCEPT
                         ![ip] = [count |-> 1, resetTime |-> now + windowMs]]]
      ELSE IF userLimit.count >= maxRequests
      THEN [allowed |-> FALSE, store |-> store]
      ELSE [allowed |-> TRUE, store |-> [store EXCEPT ![ip].count = @ + 1]]

\* the observer is not counting
NoWatch == [isOff |-> TRUE]

\* the observer after a request of `ip` at time `now`: it may start at an
\* admitted request, and then counts the admitted requests of that address
\* that arrive less than WINDOW_MS after its start
Observe(watch, ip, allowed, now, start) ==
  IF watch = NoWatch
  THEN IF allowed /\ start
       THEN [ip |-> ip, start |-> now, admitted |-> 1]
       ELSE NoWatch
  ELSE IF allowed /\ ip = watch.ip /\ now < watch.start + WINDOW_MS
       THEN [watch EXCEPT !.admitted = @ + 1]
       ELSE watch

\* number of times the clock advances
MaxTicks == 2

\* the clock advances by a millisecond or by a whole window
ClockSteps == {1, WINDOW_MS}

\* the clock when the route module is loaded
StartTime == 1000

\* no address header, both headers, x-real-ip alone
HeaderInputs ==
  { [forwardedFor |-> NoHeader, realIp |-> NoHeader],
    [forwardedFor |-> "10.0.0.1", realIp |-> "10.0.0.2"],
    [forwardedFor |-> NoHeader, realIp |-> "10.0.0.1"] }

Addresses == {ClientAddress(headers) : headers \in HeaderInputs}

NoRequest == [isNone |-> TRUE]

\* the status of a request the limiter let through; what the rest of the
\* handler answers is left out
HANDLED == 200

InitRateLimit ==
  /\ request = NoRequest
  /\ call = [pc |-> "idle"]
  /\ server \in {[route |-> route,
                  rateLimitStore |-> [ip \in Addresses |-> NoEntry],
                  now |-> StartTime,
                  ticks |-> 0,
                  watch |-> NoWatch] : route \in Routes}

\* POST up to its first return: the address, the limiter, and 429 or the
\* rest of the handler
Post ==
  \E headers \in HeaderInputs, start \in BOOLEAN :
    LET ip == ClientAddress(headers)
        limited == RateLimit(server.rateLimitStore, ip, server.now,
                             MaxRequestsOf(server.route), WINDOW_MS)
    IN  /\ request' = [route |-> server.route, headers |-> headers]
        /\ call' = [pc |-> "responded", ip |-> ip, allowed |-> limited.allowed,
                    status |-> IF limited.allowed THEN HANDLED ELSE 429]
        /\ server' = [server EXCEPT
                        !.rateLimitStore = limited.store,
                        !.watch = Observe(@, ip, limited.allowed, server.now,
                                          start)]

\* time passes between two requests
AdvanceClock ==
  /\ server.ticks < MaxTicks
  /\ \E step \in ClockSteps :
       server' = [server EXCEPT !.now = @ + step, !.ticks = @ + 1]
  /\ UNCHANGED <<request, call>>

NextRateLimit ==
  \/ Post
  \/ AdvanceClock

SpecRateLimit == InitRateLimit /\ [][NextRateLimit]_vars

(***************************************************************************)
(* Repeated calls.  The generate-pdf handler serves each request with one  *)
(* call of buildOptimizedResume (maxJobs 2, minBulletsPerJob 3) or of      *)
(* optimizeBulletsForSinglePage, and hands every call the same array, the  *)
(* module's initialBulletPointPool.  Here `request` holds the arguments of *)
(* the current call, `call` its activation record, and `server` what the   *)
(* earlier calls were given and returned.  The next call's bulletPool is   *)
(* the pool as the current call left it.  Both functions are synchronous,  *)
(* so a call runs to its return before the next one starts.                *)
(***************************************************************************)
MaxCalls == 3

ROUTE_MAX_JOBS == 2
ROUTE_MIN_BULLETS_PER_JOB == 3

\* the resumes the calls are made for
CallResumes ==
  { [experience |-> <<Job(1, 4), Job(2, 5)>>,
     projects |-> <<Project(1, <<"j", "s">>, 6)>>],
    [experience |-> <<Job(1, 2)>>, projects |-> <<>>] }

\* the pool shared by the calls: an entry without impact ahead of entries
\* with one
SharedPools == {ImpactPool}

Functions == {"buildOptimizedResume", "optimizeBulletsForSinglePage"}

\* the arguments the handler builds for `function`
ArgumentsOf(function, resume, bulletPool) ==
  IF function = "buildOptimizedResume"
  THEN MakeRequest(resume.experience, resume.projects, BaseAnalysis,
                   BaseRankedBullets, bulletPool,
                   ROUTE_MAX_JOBS, ROUTE_MIN_BULLETS_PER_JOB)
  ELSE LegacyRequest(resume.experience, resume.projects, bulletPool)

\* the activation record a call of `function` starts with
NewCallOf(function) ==
  IF function = "buildOptimizedResume" THEN NewCall ELSE NewLegacyCall

NoCalls == [returned |-> {}, calls |-> 1]

InitCalls ==
  /\ \E function \in Functions, resume \in CallResumes, pool \in SharedPools :
       /\ request = ArgumentsOf(function, resume, pool)
       /\ call = NewCallOf(function)
  /\ server = NoCalls

\* the value the current call returned
ReturnValue == call.result

\* the current call has returned; its arguments and result are recorded and
\* the handler makes the next call with the shared pool
CallAgain ==
  /\ call.pc \in {"done", "returned"}
  /\ server.calls < MaxCalls
  /\ \E function \in Functions, resume \in CallResumes :
       /\ request' = ArgumentsOf(function, resume, request.bulletPool)
       /\ call' = NewCallOf(function)
  /\ server' = [returned |-> server.returned
                               \cup {[arguments |-> request,
                                      result |-> ReturnValue]},
                calls |-> server.calls + 1]

NextCalls == Next \/ NextLegacy \/ CallAgain

SpecCalls == InitCalls /\ [][NextCalls]_vars

TypeOK ==
  /\ call.pc \in {"start", "project", "jobs", "job", "first", "firstLoop",
                  "second", "secondLoop", "endFill", "skills", "done", "threw"}
  /\ call.usedLines >= 0

(***************************************************************************)
(* Definitions shared by the properties.                                   *)
(***************************************************************************)
Done == call.pc = "done"

\* the job loop has ended and the fill phase has not begun
BeforeFill == call.pc = "job" /\ call.jobIdx > Len(call.jobsToInclude)

\* the minimum phase is over
AfterMinimumPhase ==
  call.pc \in {"first", "firstLoop", "second", "secondLoop", "endFill",
               "skills", "done"}

\* number of candidate bullets of a job: its own plus the pool's tagged to it
NumCandidates(job) ==
  Len(job.bullets)
    + Cardinality({k \in 1..Len(request.bulletPool) :
                     request.bulletPool[k].experienceId = ToString(job.id)})

\* the texts a job's bullets can come from
CandidateContents(job) ==
  {job.bullets[k] : k \in 1..Len(job.bullets)}
    \cup {request.bulletPool[k].content :
            k \in {m \in 1..Len(request.bulletPool) :
                     request.bulletPool[m].experienceId = ToString(job.id)}}

\* call.jobBullets is the candidate list of a job: after an iteration of the
\* job loop, and inside the two fill loops
HoldsCandidates ==
  \/ call.pc = "job" /\ call.jobIdx > 1
  \/ call.pc \in {"firstLoop", "secondLoop"}

\* the job whose candidate list call.jobBullets is
CurrentJob ==
  IF call.pc = "job" THEN call.jobsToInclude[call.jobIdx - 1]
  ELSE IF call.pc = "firstLoop" THEN call.jobsToInclude[1]
  ELSE call.jobsToInclude[2]

HasRanking(id) ==
  \E k \in 1..Len(request.rankedContent.rankedBullets) :
    request.rankedContent.rankedBullets[k].bulletId = id

\* lines of a document: fixed overhead, the headers of the sections and
\* entries it contains, one line per bullet it contains
LinesOfDocument(resumeData) ==
  STATIC_CONTENT_LINES + SKILLS_SECTION_LINES
    + (IF Len(resumeData.projects) > 0
       THEN SECTION_HEADER_LINES + PROJECT_HEADER_LINES * Len(resumeData.projects)
              + SumLen(resumeData.projects)
       ELSE 0)
    + (IF Len(resumeData.experience) > 0
       THEN SECTION_HEADER_LINES + JOB_HEADER_LINES * Len(resumeData.experience)
              + SumLen(resumeData.experience)
       ELSE 0)

(***************************************************************************)
(* Properties.                                                             *)
(***************************************************************************)

\* C1: no experience entry of the returned resumeData has more than 6
\* bullets, for every input (also minBulletsPerJob greater than 6).
C1_PerJobCap ==
  Done =>
    \A k \in 1..Len(call.result.resumeData.experience) :
      Len(call.result.resumeData.experience[k].bullets) <= 6

\* C2 as stated: the reported usedLines is at most 62 + 1 for every input.
C2_UsedLinesWithinBudgetPlusOne ==
  Done => call.result.pageSpaceUsed.usedLines <= 62 + 1

\* C2 amended: the fill phase never takes the tally past the 62-line budget:
\* the reported usedLines is at most the larger of 62 and the tally reached
\* before the fill phase (62 - remainingLines of line 211).
C2_FillNeverOvercommits ==
  Done =>
    call.result.pageSpaceUsed.usedLines
      <= Max2(62, 62 - call.remainingLines)

\* the fill phase was stopped by the budget: it added bullets and the page
\* is exactly full
C2_Witness ==
  /\ Done
  /\ call.bulletsAdded > 0
  /\ call.result.pageSpaceUsed.usedLines = 62
  /\ NumCandidates(call.jobsToInclude[1])
       > Len(call.result.resumeData.experience[1].bullets)
  /\ Len(call.result.resumeData.experience[1].bullets) < 6

\* C3: the reported usedLines is the fixed overhead plus the header lines of
\* what the output contains plus the number of bullets present in the output.
C3_UsedLinesMatchesDocument ==
  Done =>
    call.result.pageSpaceUsed.usedLines = LinesOfDocument(call.result.resumeData)

\* C4: before the fill phase every included job holds min(minBulletsPerJob,
\* number of its candidates) bullets, all of them texts of its candidates,
\* and afterwards at least that many; a supplied minBulletsPerJob >= 1 is the
\* minimum used, and every job to include has its entry, in order.
C4_MinimumGuarantee ==
  /\ (call.pc # "start" /\ request.minBulletsPerJob >= 1)
       => call.minBulletsPerJob = request.minBulletsPerJob
  /\ (BeforeFill \/ AfterMinimumPhase) =>
       /\ Len(call.optimizedResume.experience) = Len(call.jobsToInclude)
       /\ \A k \in 1..Len(call.jobsToInclude) :
            LET job == call.jobsToInclude[k]
                out == call.optimizedResume.experience[k]
                guaranteed == Min2(call.minBulletsPerJob, NumCandidates(job))
            IN  /\ out.id = job.id
                /\ BeforeFill => Len(out.bullets) = guaranteed
                /\ Len(out.bullets) >= guaranteed
                /\ \A b \in 1..Len(out.bullets) :
                     out.bullets[b] \in CandidateContents(job)

\* one job has fewer candidates than the minimum and holds them all, while
\* another job has enough and holds the minimum
C4_Witness ==
  /\ BeforeFill
  /\ request.minBulletsPerJob >= 1
  /\ \E j, k \in 1..Len(call.jobsToInclude) :
       /\ NumCandidates(call.jobsToInclude[j]) < call.minBulletsPerJob
       /\ NumCandidates(call.jobsToInclude[j]) > 0
       /\ Len(call.optimizedResume.experience[j].bullets)
            = NumCandidates(call.jobsToInclude[j])
       /\ NumCandidates(call.jobsToInclude[k]) > call.minBulletsPerJob
       /\ Len(call.optimizedResume.experience[k].bullets) = call.minBulletsPerJob

\* C5: in every candidate list the call builds, a candidate whose id has an
\* entry in rankedBullets carries that entry's relevanceScore, for every
\* value 0..100, 0 included.
C5_RankedScoreIsUsed ==
  HoldsCandidates =>
    \A k \in 1..Len(call.jobBullets) :
      HasRanking(call.jobBullets[k].bulletId) =>
        call.jobBullets[k].relevanceScore =
          FindRanking(request.rankedContent.rankedBullets,
                      call.jobBullets[k].bulletId).relevanceScore

\* C6: every candidate list the call builds holds every native and every
\* tagged pool bullet of its job; a candidate whose id has no ranking entry
\* carries score 50 (native) or 30 (pool), never 0, and unranked native
\* bullets stand before unranked pool bullets.
C6_UnrankedDefaults ==
  HoldsCandidates =>
    LET job == CurrentJob
        pool == request.bulletPool
        candidates == call.jobBullets
        IsNativeAt(p) ==
          \E k \in 1..Len(job.bullets) :
            /\ candidates[p].content = job.bullets[k]
            /\ candidates[p].bulletId
                 = ToString(job.id) \o "-" \o ToString(k - 1)
        IsPoolAt(p) ==
          \E k \in 1..Len(pool) :
            /\ pool[k].experienceId = ToString(job.id)
            /\ candidates[p].content = pool[k].content
            /\ candidates[p].bulletId = pool[k].id
    IN  /\ Len(candidates) = NumCandidates(job)
        /\ \A k \in 1..Len(job.bullets) : \E p \in 1..Len(candidates) :
             candidates[p].content = job.bullets[k]
        /\ \A k \in 1..Len(pool) :
             pool[k].experienceId = ToString(job.id)
               => \E p \in 1..Len(candidates) :
                    candidates[p].content = pool[k].content
        /\ \A p \in 1..Len(candidates) :
             ~ HasRanking(candidates[p].bulletId) =>
               /\ candidates[p].relevanceScore # 0
               /\ IsNativeAt(p) => candidates[p].relevanceScore = 50
               /\ IsPoolAt(p) => candidates[p].relevanceScore = 30
        /\ \A p, q \in 1..Len(candidates) :
             ( /\ ~ HasRanking(candidates[p].bulletId) /\ IsNativeAt(p)
               /\ ~ HasRanking(candidates[q].bulletId) /\ IsPoolAt(q) )
               => p < q

\* the fill of the first job reads a candidate list holding an unranked
\* native bullet and, behind a ranked bullet, an unranked pool bullet
C6_Witness ==
  /\ call.pc = "firstLoop"
  /\ \E p, q, r \in 1..Len(call.jobBullets) :
       /\ ~ HasRanking(call.jobBullets[p].bulletId)
       /\ ~ HasRanking(call.jobBullets[q].bulletId)
       /\ HasRanking(call.jobBullets[r].bulletId)
       /\ call.jobBullets[p].relevanceScore = 50
       /\ call.jobBullets[q].relevanceScore = 30
       /\ call.jobBullets[r].relevanceScore = 40
       /\ p < r /\ r < q

\* ids of the bullets of the catalog: every job's native bullets and every
\* pool bullet
CatalogBulletIds(req) ==
  UNION {{NativeBulletId(req.originalResume.experience[j].id, k - 1) :
            k \in 1..Len(req.originalResume.experience[j].bullets)} :
         j \in 1..Len(req.originalResume.experience)}
    \cup {req.bulletPool[k].id : k \in 1..Len(req.bulletPool)}

\* experienceId values of the jobs the call includes
IncludedJobIds(req) ==
  LET included == Slice0(req.originalResume.experience,
                         OrDefault(req.maxJobs, DefaultMaxJobs))
  IN  {ToString(included[k].id) : k \in 1..Len(included)}

IsDanglingRanking(req, rb) == rb.bulletId \notin CatalogBulletIds(req)
IsDanglingPoolBullet(req, bp) == bp.experienceId \notin IncludedJobIds(req)

\* the request without its dangling ranking entries and pool bullets
WithoutDangling(req) ==
  [req EXCEPT
     !.rankedContent.rankedBullets =
        SelectSeq(@, LAMBDA rb : ~ IsDanglingRanking(req, rb)),
     !.bulletPool = SelectSeq(@, LAMBDA bp : ~ IsDanglingPoolBullet(req, bp))]

\* C7: ranking entries naming no bullet of the catalog and pool bullets
\* tagged to no included job change nothing: the call returns what it
\* returns for the request without them.
C7_DanglingReferencesIgnored ==
  Done => call.result = BuildOptimizedResume(WithoutDangling(request))

\* a call that filled a job returns, with a dangling ranking entry and a
\* dangling pool bullet in its request
C7_Witness ==
  /\ Done
  /\ call.bulletsAdded > 0
  /\ \E k \in 1..Len(request.rankedContent.rankedBullets) :
       IsDanglingRanking(request, request.rankedContent.rankedBullets[k])
  /\ \E k \in 1..Len(request.bulletPool) :
       IsDanglingPoolBullet(request, request.bulletPool[k])
  /\ \E k \in 1..Len(request.bulletPool) :
       ~ IsDanglingPoolBullet(request, request.bulletPool[k])

\* C8: with no experience entry the reported usedLines is the tally right
\* after project selection: 20 plus the selected project's header lines and
\* bullet count.
C8_EmptyExperienceAddsNoLines ==
  (Done /\ request.originalResume.experience = <<>>) =>
    call.result.pageSpaceUsed.usedLines
      = 20 + (IF call.selectedProject = Null THEN 0
              ELSE 3 + Len(call.selectedProject.bullets))

\* C9: the output has at most one project: exactly one when the resume has
\* projects; none when it has none, and then no line is charged for a
\* project, selectedProjectId is absent, projectSelected is false and the
\* call runs to its end.
C9_AtMostOneProject ==
  /\ call.pc # "start" => Len(call.optimizedResume.projects) <= 1
  /\ Done =>
       /\ Len(call.result.resumeData.projects)
            = (IF request.originalResume.projects = <<>> THEN 0 ELSE 1)
       /\ call.result.optimizationDetails.projectSelected
            = (request.originalResume.projects # <<>>)
  /\ request.originalResume.projects = <<>> =>
       /\ call.pc = "jobs" => call.usedLines = 20
       /\ Done => call.result.selectedProjectId = Undefined
       /\ ~ Done => StepOf(request, call) # call

\* a call for a resume without projects has returned
C9_Witness ==
  /\ Done
  /\ request.originalResume.projects = <<>>
  /\ call.result.resumeData.projects = <<>>
  /\ call.result.resumeData.experience # <<>>

\* C10: the selected project is the earliest of the projects with the
\* greatest match count, and it is output with its bullets unchanged.
C10_BestProjectFirstOnTies ==
  (Done /\ request.originalResume.projects # <<>>) =>
    LET projects == request.originalResume.projects
        Count(k) == ProjectScore(projects[k], request.rankedContent)
    IN  \E k \in 1..Len(projects) :
          /\ call.result.resumeData.projects = <<projects[k]>>
          /\ call.result.selectedProjectId = projects[k].id
          /\ \A m \in 1..Len(projects) : Count(m) <= Count(k)
          /\ \A m \in 1..(k - 1) : Count(m) < Count(k)

\* two projects tie on a positive match count and the first is returned;
\* the one returned has bullets
C10_Witness ==
  /\ Done
  /\ Len(request.originalResume.projects) >= 2
  /\ ProjectScore(request.originalResume.projects[1], request.rankedContent) > 0
  /\ ProjectScore(request.originalResume.projects[1], request.rankedContent)
       = ProjectScore(request.originalResume.projects[2], request.rankedContent)
  /\ request.originalResume.projects[1].technologies
       # request.originalResume.projects[2].technologies
  /\ call.result.resumeData.projects = <<request.originalResume.projects[1]>>
  /\ Len(call.result.resumeData.projects[1].bullets) = 2

\* the parameter as the caller supplied it, the default only when omitted
Supplied(value, default) == IF value = Undefined THEN default ELSE value

\* C11: the output experience list is exactly the first min(maxJobs, number
\* of entries) entries of originalResume.experience in their order, and the
\* guaranteed minimum used is the supplied minBulletsPerJob; the defaults 2
\* and 3 apply only to an omitted parameter, an explicit 0 is honoured.
C11_SuppliedParametersHonoured ==
  Done =>
    LET experience == request.originalResume.experience
        output == call.result.resumeData.experience
        maxJobs == Supplied(request.maxJobs, DefaultMaxJobs)
    IN  /\ Len(output) = Min2(maxJobs, Len(experience))
        /\ \A k \in 1..Len(output) :
             /\ k <= Len(experience)
             /\ output[k].id = experience[k].id
             /\ output[k].company = experience[k].company
        /\ call.minBulletsPerJob
             = Supplied(request.minBulletsPerJob, DefaultMinBulletsPerJob)

\* the fill phase had no line to give: none was left when it began, or it
\* used up every line it had
FillEndedWithoutLine ==
  \/ call.remainingLines <= 0
  \/ call.bulletsAdded >= call.remainingLines

\* C14: in every result remainingLines = totalAvailableLines - usedLines and
\* canFitMoreContent is true exactly when remainingLines > 2; so when the
\* fill phase ended because no line was left, or none was available to begin
\* with, canFitMoreContent is false.
C14_PageSpaceReport ==
  Done =>
    LET report == call.result.pageSpaceUsed
    IN  /\ report.totalAvailableLines = 62
        /\ report.remainingLines = report.totalAvailableLines - report.usedLines
        /\ report.canFitMoreContent <=> (report.remainingLines > 2)
        /\ FillEndedWithoutLine => ~ report.canFitMoreContent

\* the fill phase gave away its last line and the report says the page is
\* full
C14_Witness ==
  /\ Done
  /\ call.remainingLines > 0
  /\ call.bulletsAdded = call.remainingLines
  /\ call.result.pageSpaceUsed.remainingLines = 0
  /\ ~ call.result.pageSpaceUsed.canFitMoreContent

\* the five technical categories of the resume's skills
TechnicalCategories ==
  {"programmingLanguages", "frameworksAndLibraries", "softwareAndTools",
   "cloudAndDevOps", "machineLearning"}

\* the rearrangements of positions 1..n
Rearrangements(n) ==
  {p \in [1..n -> 1..n] : \A k, m \in 1..n : p[k] = p[m] => k = m}

\* C12: for each of the five technical categories the output list is a
\* permutation of the input list of that category (same skills, same
\* multiplicities, nothing added, dropped or moved across categories), and
\* softSkills is returned identical to the input, whatever rankedSkills is.
C12_SkillsArePermuted ==
  Done =>
    LET input == request.originalResume.skills
        output == call.result.resumeData.skills
    IN  /\ DOMAIN output = DOMAIN input
        /\ output.softSkills = input.softSkills
        /\ \A category \in TechnicalCategories :
             /\ Len(output[category]) = Len(input[category])
             /\ \E p \in Rearrangements(Len(input[category])) :
                  \A k \in 1..Len(input[category]) :
                    output[category][k] = input[category][p[k]]

\* a ranking has moved a skill of a three-skill category to the front, past
\* skills it does not rank
C12_Witness ==
  /\ Done
  /\ Len(request.originalResume.skills.softwareAndTools) = 3
  /\ request.rankedContent.rankedSkills.tools # <<>>
  /\ call.result.resumeData.skills.softwareAndTools
       # request.originalResume.skills.softwareAndTools
  /\ call.result.resumeData.skills.softwareAndTools[1]
       = request.originalResume.skills.softwareAndTools[3]

\* the ranked category that orders a technical category
RankingFor(category) ==
  CASE category = "programmingLanguages" -> "programmingLanguages"
    [] category = "frameworksAndLibraries" -> "frameworks"
    [] category = "softwareAndTools" -> "tools"
    [] category = "cloudAndDevOps" -> "others"
    [] category = "machineLearning" -> "others"

\* the score a ranking gives a skill: that of the entry whose name equals it
\* up to case (of the last such entry when the name is ranked twice), 0 when
\* there is none
MappedScore(skill, ranking) ==
  IF \A k \in 1..Len(ranking) : ToLowerCase(ranking[k].skill) # ToLowerCase(skill)
  THEN 0
  ELSE LET last == CHOOSE k \in 1..Len(ranking) :
                     /\ ToLowerCase(ranking[k].skill) = ToLowerCase(skill)
                     /\ \A m \in (k + 1)..Len(ranking) :
                          ToLowerCase(ranking[m].skill) # ToLowerCase(skill)
       IN  ranking[last].relevanceScore

\* C13: within each reordered category the output is the input list stably
\* sorted by descending mapped score (the relevanceScore of the ranked entry
\* named like the skill up to case, 0 when there is none): skills of equal
\* score keep their input order, and an empty ranking leaves the order
\* unchanged.
C13_StableSortByMappedScore ==
  Done =>
    \A category \in TechnicalCategories :
      LET input == request.originalResume.skills[category]
          output == call.result.resumeData.skills[category]
          ranking == request.rankedContent.rankedSkills[RankingFor(category)]
          Score(k) == MappedScore(input[k], ranking)
      IN  /\ Len(output) = Len(input)
          /\ \E p \in Rearrangements(Len(input)) :
               /\ \A k \in 1..Len(input) : output[k] = input[p[k]]
               /\ \A k, m \in 1..Len(input) :
                    k < m =>
                      \/ Score(p[k]) > Score(p[m])
                      \/ Score(p[k]) = Score(p[m]) /\ p[k] < p[m]
          /\ ranking = <<>> => output = input

\* a ranking written in one case has moved the skill written in the other
\* case to the front, and the two skills it does not rank kept their order
C13_Witness ==
  /\ Done
  /\ request.rankedContent.rankedSkills.frameworks
       = << RankedSkill(<<"J", "S">>, 80) >>
  /\ request.originalResume.skills.frameworksAndLibraries
       = << <<"p">>, <<"p">>, <<"j", "s">> >>
  /\ call.result.resumeData.skills.frameworksAndLibraries
       = << <<"j", "s">>, <<"p">>, <<"p">> >>

\* C15: buildOptimizedResume never raises on incomplete ranking data: without
\* rankedBullets, without rankedSkills or some of its categories, or with an
\* analysis that lacks requiredSkills or preferredSkills, the call goes on to
\* return a result computed with the defaults.
C15_NeverRaises == call.pc # "threw"

\* the call of optimizeBulletsForSinglePage has returned
Returned == call.pc = "returned"

\* original bullets of the experience plus the pool bullets tagged to it
NumAvailable(experience) ==
  Len(experience.bullets)
    + Cardinality({k \in 1..Len(request.bulletPool) :
                     request.bulletPool[k].experienceId
                       = IdToString(experience.id)})

LegacyTypeOK ==
  /\ call.pc \in {"allocate", "distribute", "apply", "projects", "returned"}
  /\ call.jobIdx \in 0..(Len(request.resumeData.experience) + 1)
  /\ Len(call.optimizedExperience) <= Len(request.resumeData.experience)

\* C16: whatever the number of experience entries, the output of
\* optimizeBulletsForSinglePage has at most 18 bullets over all its
\* experience entries.
C16_TotalBulletCeiling ==
  Returned => SumLen(call.result.experience) <= 18

\* C17: in the output every experience entry with at least 4 available
\* bullets (its original bullets plus the pool bullets tagged to it) has at
\* least 4 bullets, and an entry with fewer than 4 available has all of them.
C17_PerJobMinimum ==
  Returned =>
    \A k \in 1..Len(request.resumeData.experience) :
      LET available == NumAvailable(request.resumeData.experience[k])
          output == Len(call.result.experience[k].bullets)
      IN  IF available >= 4 THEN output >= 4 ELSE output = available

\* bullets beyond the minimum of 4 in an output entry
Extras(experience) == Max2(0, Len(experience.bullets) - 4)

\* C18: extras are handed out in experience-list order with at most 3 per
\* job: no output job has more than 7 bullets, and a later job has an extra
\* bullet only if every earlier job has min(3, number of its original bullets
\* beyond 4) extras.
C18_ExtrasInListOrder ==
  Returned =>
    LET input == request.resumeData.experience
        output == call.result.experience
    IN  /\ \A k \in 1..Len(output) : Len(output[k].bullets) <= 7
        /\ \A later \in 1..Len(output) :
             Extras(output[later]) > 0 =>
               \A earlier \in 1..(later - 1) :
                 Extras(output[earlier])
                   = Min2(3, Max2(0, Len(input[earlier].bullets) - 4))

\* a later job has an extra bullet after an earlier job took its full three
\* and another earlier job had no bullet beyond four to take
C18_Witness ==
  /\ Returned
  /\ Len(call.result.experience) >= 3
  /\ Len(request.resumeData.experience[1].bullets) = 8
  /\ Len(call.result.experience[1].bullets) = 7
  /\ Len(request.resumeData.experience[2].bullets) = 3
  /\ Len(call.result.experience[3].bullets) > 4

\* C19: distribution stops only when the ceiling is exhausted or nothing
\* more can be given: if the output has fewer than 18 experience bullets,
\* every experience entry has 7 bullets or all of its available bullets.
C19_ExtrasExhausted ==
  (Returned /\ SumLen(call.result.experience) < 18) =>
    \A k \in 1..Len(call.result.experience) :
      \/ Len(call.result.experience[k].bullets) = 7
      \/ Len(call.result.experience[k].bullets)
           = NumAvailable(request.resumeData.experience[k])

\* C20: the call changes nothing but bullet lists: same experience entries
\* and same projects, in the same order, other fields unchanged; a project's
\* bullets are the first min(4, n) of its n bullets in order; personalInfo,
\* skills and education are returned unchanged.
C20_OnlyBulletListsChange ==
  Returned =>
    LET input == request.resumeData
        output == call.result
    IN  /\ DOMAIN output = DOMAIN input
        /\ output.personalInfo = input.personalInfo
        /\ output.skills = input.skills
        /\ output.education = input.education
        /\ Len(output.experience) = Len(input.experience)
        /\ \A k \in 1..Len(input.experience) :
             [output.experience[k] EXCEPT !.bullets = <<>>]
               = [input.experience[k] EXCEPT !.bullets = <<>>]
        /\ Len(output.projects) = Len(input.projects)
        /\ \A k \in 1..Len(input.projects) :
             /\ [output.projects[k] EXCEPT !.bullets = <<>>]
                  = [input.projects[k] EXCEPT !.bullets = <<>>]
             /\ output.projects[k].bullets
                  = SubSeq(input.projects[k].bullets, 1,
                           Min2(4, Len(input.projects[k].bullets)))

\* a six-bullet project came back with its first four bullets, next to a
\* project returned whole and two experience entries
C20_Witness ==
  /\ Returned
  /\ Len(request.resumeData.projects) = 2
  /\ Len(request.resumeData.projects[1].bullets) = 6
  /\ Len(call.result.projects[1].bullets) = 4
  /\ call.result.projects[2] = request.resumeData.projects[2]
  /\ Len(call.result.experience) = 2

\* bullets the minimum phase gives an included job
MinimumPhaseCount(job) == Min2(call.minBulletsPerJob, NumCandidates(job))

RECURSIVE SumMinimumPhase(_)
SumMinimumPhase(jobs) ==
  IF jobs = <<>> THEN 0
  ELSE MinimumPhaseCount(jobs[1]) + SumMinimumPhase(Tail(jobs))

\* bullets of the returned experience entries that the fill phase added
FillBulletsOfResult ==
  SumLen(call.result.resumeData.experience)
    - SumMinimumPhase(call.jobsToInclude)

\* C25: the fill phase never spends more lines than were left: with R = 62
\* minus usedLines at the start of the fill phase, fill adds at most
\* max(0, R) bullets over both jobs, each added bullet raises usedLines by
\* exactly 1, and nothing is added when R <= 0.
C25_FillWithinRemainingLines ==
  /\ call.pc \in {"firstLoop", "second", "secondLoop", "endFill"} =>
       /\ call.remainingLines > 0
       /\ call.bulletsAdded <= call.remainingLines
  /\ Done =>
       LET startOfFill == TOTAL_PAGE_LINES - call.remainingLines
       IN  /\ FillBulletsOfResult >= 0
           /\ FillBulletsOfResult <= Max2(0, call.remainingLines)
           /\ call.result.pageSpaceUsed.usedLines
                = startOfFill + FillBulletsOfResult
           /\ call.remainingLines <= 0 => FillBulletsOfResult = 0

\* fill gave bullets to both jobs and stopped on the second when the last
\* line was spent, with a candidate of the second job left over
C25_Witness ==
  /\ Done
  /\ Len(call.jobsToInclude) = 2
  /\ Len(call.result.resumeData.experience[1].bullets)
       > MinimumPhaseCount(call.jobsToInclude[1])
  /\ Len(call.result.resumeData.experience[2].bullets)
       > MinimumPhaseCount(call.jobsToInclude[2])
  /\ FillBulletsOfResult = call.remainingLines
  /\ Len(call.result.resumeData.experience[2].bullets)
       < NumCandidates(call.jobsToInclude[2])
  /\ Len(call.result.resumeData.experience[2].bullets) < 6

\* ids of the native bullets of the resume's experience entries
NativeBulletIds ==
  {NativeBulletId(request.originalResume.experience[k].id, index) :
     k \in 1..Len(request.originalResume.experience),
     index \in 0..8}

\* every bullet has an id of its own: job ids differ, pool ids differ from
\* each other and from the native ids
AllBulletIdsDistinct ==
  /\ \A k, m \in 1..Len(request.originalResume.experience) :
       request.originalResume.experience[k].id
         = request.originalResume.experience[m].id => k = m
  /\ \A k, m \in 1..Len(request.bulletPool) :
       request.bulletPool[k].id = request.bulletPool[m].id => k = m
  /\ \A k \in 1..Len(request.bulletPool) :
       request.bulletPool[k].id \notin NativeBulletIds

\* C30: in every result optimizationDetails.totalBulletsAdded equals the
\* length of usedBullets and the number of bullets over all output
\* experience entries (project bullets not counted); with distinct bullet
\* ids usedBullets holds no id twice.
C30_UsedBulletsAccounting ==
  Done =>
    LET used == call.result.usedBullets
    IN  /\ call.result.optimizationDetails.totalBulletsAdded = Len(used)
        /\ Len(used) = SumLen(call.result.resumeData.experience)
        /\ AllBulletIdsDistinct =>
             \A k, m \in 1..Len(used) : used[k] = used[m] => k = m

\* a result with a project, whose jobs got bullets in the minimum phase and
\* in the fill phase
C30_Witness ==
  /\ Done
  /\ AllBulletIdsDistinct
  /\ Len(call.result.resumeData.projects) = 1
  /\ Len(call.result.resumeData.projects[1].bullets) > 0
  /\ call.bulletsAdded > 0
  /\ Len(call.result.usedBullets) > call.bulletsAdded
  /\ Len(call.result.usedBullets) = SumLen(call.result.resumeData.experience)

\* the step adds a fill bullet to output job k
FillAddsTo(k) ==
  /\ AfterMinimumPhase
  /\ call.pc # "done"
  /\ Len(call.optimizedResume.experience) >= k
  /\ Len(call'.optimizedResume.experience[k].bullets)
       > Len(call.optimizedResume.experience[k].bullets)

\* every candidate of the job has its id in usedBullets
NoUnusedCandidate(job) ==
  LET candidates == CandidateBullets(job, request.rankedContent.rankedBullets,
                                     request.bulletPool)
  IN  \A k \in 1..Len(candidates) :
        ArrayIncludes(call.usedBullets, candidates[k].bulletId)

\* C23: fill goes first job, then second job, and never returns: the first
\* job's fill bullets are all added before any of the second's; the second
\* job gets a fill bullet only when lines remain and the first job holds 6
\* bullets or has no unused candidate left; later jobs get none.
C23_FillOrder ==
  [][ /\ FillAddsTo(1) =>
           (Len(call.jobsToInclude) >= 2 =>
              Len(call.optimizedResume.experience[2].bullets)
                = MinimumPhaseCount(call.jobsToInclude[2]))
      /\ FillAddsTo(2) =>
           /\ call.bulletsAdded < call.remainingLines
           /\ \/ Len(call.optimizedResume.experience[1].bullets) = 6
              \/ NoUnusedCandidate(call.jobsToInclude[1])
           /\ call'.optimizedResume.experience[1]
                = call.optimizedResume.experience[1]
      /\ \A k \in 3..Len(call.jobsToInclude) : ~ FillAddsTo(k)
    ]_vars

\* the second job has received a fill bullet after the first job received
\* one and ran out of candidates below 6 bullets
C23_Witness ==
  /\ call.pc = "secondLoop"
  /\ Len(call.optimizedResume.experience[2].bullets)
       > MinimumPhaseCount(call.jobsToInclude[2])
  /\ Len(call.optimizedResume.experience[1].bullets)
       > MinimumPhaseCount(call.jobsToInclude[1])
  /\ Len(call.optimizedResume.experience[1].bullets) < 6

\* the candidates of a job in original order: native bullets in index order,
\* then the pool bullets tagged to it in pool order
CandidatesInOrder(job) ==
  CandidateBullets(job, request.rankedContent.rankedBullets, request.bulletPool)

\* the score the ranking declares for the job's k-th candidate: the
\* relevanceScore of its ranking entry, 50 (native) or 30 (pool) without one
DeclaredScore(job, k) ==
  LET id == CandidatesInOrder(job)[k].bulletId
      rankedBullets == request.rankedContent.rankedBullets
      hits == {m \in 1..Len(rankedBullets) : rankedBullets[m].bulletId = id}
  IN  IF hits = {}
      THEN IF k <= Len(job.bullets) THEN 50 ELSE 30
      ELSE rankedBullets[CHOOSE m \in hits : \A n \in hits : m <= n].relevanceScore

\* candidate a comes before candidate b in the descending stable order
ComesBefore(job, a, b) ==
  \/ DeclaredScore(job, a) > DeclaredScore(job, b)
  \/ DeclaredScore(job, a) = DeclaredScore(job, b) /\ a < b

\* the position of the candidate with that text
PositionOf(job, content) ==
  CHOOSE p \in 1..Len(CandidatesInOrder(job)) :
    CandidatesInOrder(job)[p].content = content

\* the bullets are the first Len(bullets) candidates of the job in
\* descending stable order
IsTopOfCandidates(job, bullets) ==
  LET candidates == CandidatesInOrder(job)
      included == {bullets[j] : j \in 1..Len(bullets)}
  IN  /\ \A j \in 1..Len(bullets) :
           \E p \in 1..Len(candidates) : candidates[p].content = bullets[j]
      /\ \A j \in 1..(Len(bullets) - 1) :
           ComesBefore(job, PositionOf(job, bullets[j]),
                       PositionOf(job, bullets[j + 1]))
      /\ \A j \in 1..Len(bullets) :
           \A omitted \in 1..Len(candidates) :
             candidates[omitted].content \notin included =>
               ComesBefore(job, PositionOf(job, bullets[j]), omitted)

\* C24: with distinct bullet ids the bullets of every output job are the
\* first k entries of the job's candidates sorted by descending score, ties
\* in original order (k the job's final count), so no omitted candidate
\* outscores an included one.
C24_TopCandidatesInOrder ==
  (Done /\ AllBulletIdsDistinct) =>
    \A k \in 1..Len(call.result.resumeData.experience) :
      IsTopOfCandidates(call.jobsToInclude[k],
                        call.result.resumeData.experience[k].bullets)

\* no ranking entry carries the score 0
NoZeroScore ==
  \A k \in 1..Len(request.rankedContent.rankedBullets) :
    request.rankedContent.rankedBullets[k].relevanceScore # 0

\* the same for the requests whose ranking has no score of 0
TopCandidatesWhenNoZeroScore ==
  (Done /\ AllBulletIdsDistinct /\ NoZeroScore) =>
    \A k \in 1..Len(call.result.resumeData.experience) :
      IsTopOfCandidates(call.jobsToInclude[k],
                        call.result.resumeData.experience[k].bullets)

\* C28: the standalone estimator agrees with the allocation report: for
\* every result, estimateRemainingSpace(result.resumeData) equals
\* max(0, result.pageSpaceUsed.remainingLines).
C28_EstimatorAgreesWithReport ==
  Done =>
    EstimateRemainingSpace(call.result.resumeData)
      = Max2(0, call.result.pageSpaceUsed.remainingLines)

\* the impact tier of a pool bullet: 3 for an impact containing '%', 2 for
\* one containing 'improvement' or 'reduction', 1 for the others
ImpactTier(bullet) ==
  IF "impact" \notin DOMAIN bullet THEN 1
  ELSE IF Includes(bullet.impact, <<"%">>) THEN 3
  ELSE IF \/ Includes(bullet.impact, Improvement)
          \/ Includes(bullet.impact, Reduction)
       THEN 2
       ELSE 1

\* the pool positions of the bullets tagged to the experience, in pool order
TaggedPositions(experience) ==
  SelectSeq([k \in 1..Len(request.bulletPool) |-> k],
            LAMBDA k : request.bulletPool[k].experienceId
                         = IdToString(experience.id))

\* pool positions p of tier `tier`, in the order of `positions`
OfTier(positions, tier) ==
  SelectSeq(positions, LAMBDA k : ImpactTier(request.bulletPool[k]) = tier)

\* original bullets, then the tagged pool bullets tier by tier
ExpectedSequence(experience) ==
  LET tagged == TaggedPositions(experience)
      byTier == OfTier(tagged, 3) \o OfTier(tagged, 2) \o OfTier(tagged, 1)
  IN  experience.bullets
        \o [k \in 1..Len(byTier) |-> request.bulletPool[byTier[k]].content]

C29_OutputPassesPageFit == Returned => EstimatePageFit(call.result)

RateLimitTypeOK ==
  /\ server.route \in Routes
  /\ server.ticks \in 0..(MaxTicks + 1)
  /\ \A ip \in Addresses :
       server.rateLimitStore[ip] # NoEntry =>
         server.rateLimitStore[ip].count >= 1

\* C22: analyze-job is limited to 10 requests per minute per client address:
\* for every address and every interval of 60,000 ms at most 10 requests of
\* that address pass the limiter in the interval, whatever the request times.
C22_TenPerMinute ==
  (server.route = "analyze-job" /\ server.watch # NoWatch) =>
    server.watch.admitted <= 10

\* the step answers a request (the clock stands still)
AnswersRequest == server'.now = server.now /\ call'.pc = "responded"

CallReturned == call.pc \in {"done", "returned"}

\* the resume in the value a recorded call returned
ReturnedResume(a) ==
  IF "originalResume" \in DOMAIN a.arguments
  THEN a.result.resumeData ELSE a.result

====
